---------------------------- MODULE Spec2Model ----------------------------
(***************************************************************************)
(* Model of the memory-management demo: MemoryManager (memory sampling,    *)
(* cleanup registry, per-item processing), StreamProcessor (chunked        *)
(* streaming) and the MemoryManagementDemo component that drives them.     *)
(*                                                                         *)
(* JavaScript arrays are 0-based and TLA+ sequences 1-based: the loop      *)
(* variables i and j keep their JavaScript values, so items[j] of the      *)
(* source is chunk[j + 1] here.                                            *)
(***************************************************************************)
EXTENDS Integers, Sequences, FiniteSets, TLC

\* ------------------------------------------------------------------ bounds
MaxData == 3          \* longest dataset handed to processStream directly
MaxChunk == 2         \* largest chunkSize of a directly constructed StreamProcessor
MaxCallbacks == 2     \* most cleanup callbacks registered
ScenarioLen == 10     \* the 10-item scenario of the per-item failure policy
ScenarioFail == 3     \* the index at which its transform throws
MaxDataSteps == 2     \* positions of the dataset-size slider that are used
MaxRuns == 1          \* handleProcessData runs that pass validation
MaxEncrypts == 2      \* calls of ZeroKnowledgeEncryption.encrypt
MaxSizeSteps == 5     \* slider steps of the dataset size where chunk sizes need not divide it
MaxLogged == 22       \* addToLog calls between two clearings of the log
MaxStarts == 2        \* handleProcessData runs that pass validation, one after another

\* --------------------------------------------------------- program constants
ItemThreshold == 70   \* memInfo.percentage > 70 before an item
ChunkThreshold == 75  \* memInfo.percentage > 75 after a chunk
ProgressEvery == 100  \* i % 100 === 0
YieldEvery == 50      \* i % 50 === 0
LogKeep == 19         \* prev.slice(-19)
DataSizeMax == 100000 \* dataSize > 100000
DataSizeMin == 500    \* dataSize < 500, and the sliders' min
SliderStep == 500     \* the sliders' step
ChunkSizeMax == 2000  \* the chunk-size slider's max
DataSizeStart == 1000 \* useState(1000)
ChunkSizeStart == 500 \* useState(500)
IvLength == 12        \* this.ivLength = 12
TagLength == 16       \* the authentication tag AES-GCM appends (128 bits)

NULL == "null"

\* peakMemoryRef.current === null
NoPeak == -1

\* No exception / no error object
NoError == [name |-> "none"]

\* error === null
NoMessage == [type |-> NULL, message |-> NULL, suggestion |-> NULL]

\* The ReferenceError raised by reading the identifier `global` where none is declared
GlobalReferenceError ==
    [name |-> "ReferenceError", message |-> "global is not defined", mentions |-> {}]

\* Percentages performance.memory can report (used / limit * 100): below, at
\* and above each threshold. The heap limit is taken as 100 MB, so that usedMB is
\* the same number.
MemSamples == {70, 71, 75, 76, 85}

\* What a cleanup callback does when awaited: it settles normally, or it fails (a throw
\* and a rejected promise are the same to `await` inside `try`).
CallbackKinds == {"ok", "fails"}

VARIABLES
    \* host environment
    perfMemory,        \* performance.memory exists
    hostGlobal,        \* "undefined": no identifier `global`; "noGc": global without gc; "gc": global.gc exists
    \* MemoryManager / StreamProcessor fields
    cleanupCallbacks,  \* this.cleanupCallbacks
    chunkSize,         \* this.chunkSize
    \* arguments of the processStream call
    data,              \* the dataset: a sequence of records, a record being its id
    failing,           \* the records on which the transform throws
    onChunk,           \* NULL or the name of the callback passed
    onProgress,        \* NULL or the name of the callback passed
    \* locals of processStream
    pc, i, chunk, chunkIndex, totalChunks, results,
    \* locals of processWithMemoryCheck and forceCleanup
    j, chunkResults, memInfo, cb, ret,
    \* what the run did (observations, never read by the program)
    transformLog,      \* processor(item, index) calls in call order
    pending,           \* transform calls not settled yet
    chunkLog,          \* chunks cut by data.slice, in order
    onChunkCalls,      \* arguments of each onChunk invocation
    progressEvents,    \* events handed to onProgress
    errorLog,          \* console.error entries of processWithMemoryCheck
    cbTrace,           \* callbacks invoked by the current forceCleanup call
    cbWarned,          \* console.warn entries of the current forceCleanup call
    cbInFlight,        \* callbacks invoked and not settled
    cleanupCount,      \* forceCleanup calls made for the current item
    paused,            \* the 100 ms pause elapsed for the current item
    gcCalled,          \* global.gc() was called by the current forceCleanup call
    thrown,            \* the exception that escaped processStream, or NoError
    \* MemoryManagementDemo: state and refs
    dataSize, isProcessing, isAnimating, progress, resultsState, processingLog,
    error, success,
    encryptionKey,     \* encryptionKeyRef.current: NULL or "key"
    keyInit,           \* initializeEncryption: "pending" or "settled"
    timer,             \* the setTimeout of handleProcessData's finally is pending
    runs,              \* handleProcessData runs that passed validation so far
    memoryInfo,        \* the memoryInfo state: the last snapshot the monitor stored
    memoryInfoSeen,    \* memoryInfo as the current handleProcessData closure captured it
    peakMemory,        \* peakMemoryRef.current
    \* ZeroKnowledgeEncryption
    cipher,            \* the fields of the ZeroKnowledgeEncryption object
    encCalls,          \* the encrypt calls made, in call order: locals and return value
    randomLog,         \* what crypto.getRandomValues returned, and to which call
    logged             \* the messages given to addToLog since the log was last emptied

hostVars == <<perfMemory, hostGlobal>>
argVars == <<data, failing, onChunk, onProgress, chunkSize>>
streamVars == <<pc, i, chunk, chunkIndex, totalChunks, results>>
itemVars == <<j, chunkResults, memInfo>>
cleanupVars == <<cb, ret, cbTrace, cbWarned, cbInFlight, gcCalled>>
obsVars == <<transformLog, pending, chunkLog, onChunkCalls, progressEvents, errorLog,
             cleanupCount, paused, thrown>>
monitorVars == <<memoryInfo, memoryInfoSeen, peakMemory>>
appVars == <<dataSize, isProcessing, isAnimating, progress, resultsState, processingLog, logged,
             error, success, encryptionKey, keyInit, timer, runs, monitorVars>>
cipherVars == <<cipher, encCalls, randomLog>>
vars == <<hostVars, cleanupCallbacks, argVars, streamVars, itemVars, cleanupVars, obsVars,
          appVars, cipherVars>>

\* ----------------------------------------------------------------- helpers
Min(a, b) == IF a < b THEN a ELSE b
Max(a, b) == IF a > b THEN a ELSE b

\* Math.floor in place of Math.ceil
CeilAsFloor(a, b) == a \div b

\* Math.ceil(a / b) for a >= 0, b >= 1
Ceil(a, b) == IF a % b = 0 THEN a \div b ELSE (a \div b) + 1

\* Math.floor(a / b) for a >= 0, b >= 1
Floor(a, b) == a \div b

\* Array.prototype.slice(from, to) with 0 <= from <= to
slice(arr, from, to) == SubSeq(arr, from + 1, Min(to, Len(arr)))

\* x / y * 100 kept exact as a fraction
Percentage(x, y) == [num |-> x * 100, den |-> y]

\* A literal percentage
Percent(p) == [num |-> p, den |-> 1]

\* A dataset of n records: record k has id k (generateLargeDataset).
generateLargeDataset(size) == [k \in 1..size |-> k - 1]

\* What checkMemoryUsage returns where performance.memory is missing (null)
NoSnapshot == [available |-> FALSE]

\* MemoryManager.checkMemoryUsage: the snapshots it can return
checkMemoryUsage ==
    IF perfMemory
    THEN {[available |-> TRUE, percentage |-> p, usedMB |-> p] : p \in MemSamples}
    ELSE {NoSnapshot}

\* The comparison with >= in place of >
overThresholdInclusive(snapshot, threshold) ==
    snapshot.available /\ snapshot.percentage >= threshold

\* `memInfo && memInfo.percentage > threshold`
overThreshold(snapshot, threshold) ==
    snapshot.available /\ snapshot.percentage > threshold

\* realEncryption: the EncryptedRecord made from (data, index)
realEncryption(record, index) == [id |-> index, originalData |-> record]


\* unshift in place of push: the items go in front
pushAsUnshift(arr, items) == items \o arr

\* Array.prototype.push(...items)
push(arr, items) == arr \o items

\* ------------------------------------------------------------ MemoryManager
\* registerCleanup(callback): append-only, before a run
registerCleanup ==
    /\ pc = "idle"
    /\ Len(cleanupCallbacks) < MaxCallbacks
    /\ \E callback \in CallbackKinds :
          cleanupCallbacks' = push(cleanupCallbacks, <<callback>>)
    /\ UNCHANGED <<appVars, hostVars, cipherVars, argVars, streamVars, itemVars, cleanupVars, obsVars>>

\* The call `this.forceCleanup()` made by `caller`: the loop starts at the first callback.
forceCleanup(caller) ==
    /\ pc' = "forceCleanup"
    /\ ret' = caller
    /\ cb' = 0
    /\ cbTrace' = <<>>
    /\ cbWarned' = <<>>
    /\ gcCalled' = FALSE
    /\ UNCHANGED cbInFlight

\* forceCleanup without the try/catch's effect: the loop ends at the first callback
\* that failed.
forceCleanupLoopStopsAtFailure ==
    /\ pc = "forceCleanup"
    /\ IF cb < Len(cleanupCallbacks) /\ cbWarned = <<>>
       THEN /\ cbTrace' = Append(cbTrace, cb)
            /\ cbInFlight' = cbInFlight \cup {cb}
            /\ pc' = "awaitCallback"
       ELSE /\ pc' = "gcHint"
            /\ UNCHANGED <<cbTrace, cbInFlight>>
    /\ UNCHANGED <<appVars, hostVars, cipherVars, cleanupCallbacks, argVars, i, chunk, chunkIndex, totalChunks,
                   results, itemVars, cb, ret, cbWarned, gcCalled, obsVars>>

\* forceCleanup, `for (const callback of this.cleanupCallbacks)`: invoke the next
\* callback and await it, or leave the loop.
forceCleanupLoop ==
    /\ pc = "forceCleanup"
    /\ IF cb < Len(cleanupCallbacks)
       THEN /\ cbTrace' = Append(cbTrace, cb)
            /\ cbInFlight' = cbInFlight \cup {cb}
            /\ pc' = "awaitCallback"
       ELSE /\ pc' = "gcHint"
            /\ UNCHANGED <<cbTrace, cbInFlight>>
    /\ UNCHANGED <<appVars, hostVars, cipherVars, cleanupCallbacks, argVars, i, chunk, chunkIndex, totalChunks,
                   results, itemVars, cb, ret, cbWarned, gcCalled, obsVars>>

\* forceCleanup, `await callback()` settles: a throw or a rejection is caught and warned.
settleCallback ==
    /\ pc = "awaitCallback"
    /\ cbInFlight' = cbInFlight \ {cb}
    /\ cbWarned' = IF cleanupCallbacks[cb + 1] = "ok" THEN cbWarned ELSE Append(cbWarned, cb)
    /\ cb' = cb + 1
    /\ pc' = "forceCleanup"
    /\ UNCHANGED <<appVars, hostVars, cipherVars, cleanupCallbacks, argVars, i, chunk, chunkIndex, totalChunks,
                   results, itemVars, ret, cbTrace, gcCalled, obsVars>>

\* Where control goes when forceCleanup returns to its caller.
afterCleanup(caller) == IF caller = "item" THEN "pause" ELSE "chunkProgress"

\* forceCleanup, `if (global.gc) { global.gc(); }`: reading the identifier `global`
\* where none exists throws a ReferenceError, which no caller catches.
gcHint ==
    /\ pc = "gcHint"
    /\ IF hostGlobal = "undefined"
       THEN /\ pc' = "rejected"
            /\ thrown' = GlobalReferenceError
            /\ UNCHANGED gcCalled
       ELSE /\ pc' = afterCleanup(ret)
            /\ gcCalled' = (hostGlobal = "gc")
            /\ UNCHANGED thrown
    /\ UNCHANGED <<appVars, hostVars, cipherVars, cleanupCallbacks, argVars, i, chunk, chunkIndex, totalChunks,
                   results, itemVars, cb, ret, cbTrace, cbWarned, cbInFlight,
                   transformLog, pending, chunkLog, onChunkCalls, progressEvents, errorLog,
                   cleanupCount, paused>>

\* processWithMemoryCheck, loop head: `i < items.length`, the memory sample and the
\* cleanup decision.
itemLoop ==
    /\ pc = "itemLoop"
    /\ IF j < Len(chunk)
       THEN \E sample \in checkMemoryUsage :
              /\ memInfo' = sample
              /\ IF overThreshold(sample, ItemThreshold)
                 THEN /\ forceCleanup("item")
                      /\ cleanupCount' = cleanupCount + 1
                 ELSE /\ pc' = "callProcessor"
                      /\ UNCHANGED <<cleanupVars, cleanupCount>>
       ELSE /\ pc' = "onChunk"
            /\ UNCHANGED <<memInfo, cleanupVars, cleanupCount>>
    /\ UNCHANGED <<appVars, hostVars, cipherVars, cleanupCallbacks, argVars, i, chunk, chunkIndex, totalChunks,
                   results, j, chunkResults, transformLog, pending, chunkLog, onChunkCalls,
                   progressEvents, errorLog, paused, thrown>>

\* processWithMemoryCheck, `await new Promise(resolve => setTimeout(resolve, 100))`
pause ==
    /\ pc = "pause"
    /\ paused' = TRUE
    /\ pc' = "callProcessor"
    /\ UNCHANGED <<appVars, hostVars, cipherVars, cleanupCallbacks, argVars, i, chunk, chunkIndex, totalChunks,
                   results, itemVars, cleanupVars, transformLog, pending, chunkLog,
                   onChunkCalls, progressEvents, errorLog, cleanupCount, thrown>>

\* processWithMemoryCheck, `processor(items[i], i)` is called
callProcessor ==
    /\ pc = "callProcessor"
    /\ transformLog' = Append(transformLog, [item |-> chunk[j + 1], index |-> j])
    /\ pending' = pending \cup {chunk[j + 1]}
    /\ pc' = "awaitProcessor"
    /\ UNCHANGED <<appVars, hostVars, cipherVars, cleanupCallbacks, argVars, i, chunk, chunkIndex, totalChunks,
                   results, itemVars, cleanupVars, chunkLog, onChunkCalls, progressEvents,
                   errorLog, cleanupCount, paused, thrown>>

\* The ProgressEvent of processWithMemoryCheck for item index `idx` of `items`
itemProgress(idx, items) ==
    [processed |-> idx + 1, total |-> Len(items), percentage |-> Percentage(idx + 1, Len(items))]

\* Where the loop goes after item `idx`: a zero-delay yield after every 50th item.
afterItem(idx) == IF idx % YieldEvery = 0 THEN "yield" ELSE "itemLoop"

\* An error thrown by the transform
TransformError == [name |-> "Error", message |-> "transform failed", mentions |-> {}]

\* processWithMemoryCheck without the catch: the transform's error rejects the call.
settleProcessorRethrows ==
    /\ pc = "awaitProcessor"
    /\ pending' = pending \ {chunk[j + 1]}
    /\ IF chunk[j + 1] \notin failing
       THEN /\ chunkResults' = push(chunkResults, <<realEncryption(chunk[j + 1], j)>>)
            /\ progressEvents' = IF onProgress # NULL /\ j % ProgressEvery = 0
                                 THEN Append(progressEvents, itemProgress(j, chunk))
                                 ELSE progressEvents
            /\ pc' = afterItem(j)
            /\ j' = IF afterItem(j) = "yield" THEN j ELSE j + 1
            /\ UNCHANGED thrown
       ELSE /\ pc' = "rejected"
            /\ thrown' = TransformError
            /\ UNCHANGED <<chunkResults, progressEvents, j>>
    /\ memInfo' = NoSnapshot
    /\ cleanupCount' = 0
    /\ paused' = FALSE
    /\ cbTrace' = <<>>
    /\ cbWarned' = <<>>
    /\ gcCalled' = FALSE
    /\ UNCHANGED <<appVars, hostVars, cipherVars, cleanupCallbacks, argVars, i, chunk, chunkIndex, totalChunks,
                   results, cb, ret, cbInFlight, transformLog, chunkLog, onChunkCalls, errorLog>>

\* The loop going on while the processor call is still in flight
settleProcessorNotAwaited ==
    /\ pc = "awaitProcessor"
    /\ IF chunk[j + 1] \notin failing
       THEN /\ chunkResults' = push(chunkResults, <<realEncryption(chunk[j + 1], j)>>)
            /\ progressEvents' = IF onProgress # NULL /\ j % ProgressEvery = 0
                                 THEN Append(progressEvents, itemProgress(j, chunk))
                                 ELSE progressEvents
            /\ UNCHANGED errorLog
       ELSE /\ errorLog' = Append(errorLog, [chunk |-> chunkIndex, index |-> j])
            /\ UNCHANGED <<chunkResults, progressEvents>>
    /\ memInfo' = NoSnapshot
    /\ cleanupCount' = 0
    /\ paused' = FALSE
    /\ pc' = afterItem(j)
    /\ j' = IF afterItem(j) = "yield" THEN j ELSE j + 1
    /\ cbTrace' = <<>>
    /\ cbWarned' = <<>>
    /\ gcCalled' = FALSE
    /\ UNCHANGED <<appVars, hostVars, cipherVars, cleanupCallbacks, argVars, i, chunk, chunkIndex, totalChunks,
                   results, cb, ret, cbInFlight, transformLog, chunkLog, onChunkCalls, thrown,
                   pending>>

\* processWithMemoryCheck, the awaited processor call settles: the result is pushed
\* and progress reported, or the error is caught and logged; then the yield test.
settleProcessor ==
    /\ pc = "awaitProcessor"
    /\ pending' = pending \ {chunk[j + 1]}
    /\ IF chunk[j + 1] \notin failing
       THEN /\ chunkResults' = push(chunkResults, <<realEncryption(chunk[j + 1], j)>>)
            /\ progressEvents' = IF onProgress # NULL /\ j % ProgressEvery = 0
                                 THEN Append(progressEvents, itemProgress(j, chunk))
                                 ELSE progressEvents
            /\ UNCHANGED errorLog
       ELSE /\ errorLog' = Append(errorLog, [chunk |-> chunkIndex, index |-> j])
            /\ UNCHANGED <<chunkResults, progressEvents>>
    /\ memInfo' = NoSnapshot
    /\ cleanupCount' = 0
    /\ paused' = FALSE
    /\ pc' = afterItem(j)
    /\ j' = IF afterItem(j) = "yield" THEN j ELSE j + 1
    /\ cbTrace' = <<>>
    /\ cbWarned' = <<>>
    /\ gcCalled' = FALSE
    /\ UNCHANGED <<appVars, hostVars, cipherVars, cleanupCallbacks, argVars, i, chunk, chunkIndex, totalChunks,
                   results, cb, ret, cbInFlight, transformLog, chunkLog, onChunkCalls, thrown>>

\* processWithMemoryCheck, `await new Promise(resolve => setTimeout(resolve, 0))`, then i++
yield ==
    /\ pc = "yield"
    /\ j' = j + 1
    /\ pc' = "itemLoop"
    /\ UNCHANGED <<appVars, hostVars, cipherVars, cleanupCallbacks, argVars, i, chunk, chunkIndex, totalChunks,
                   results, chunkResults, memInfo, cleanupVars, obsVars>>

\* processWithMemoryCheck as one step, for runs whose items are not followed one by
\* one. callsOf: the processor calls made for the first n items; resultsOf: what the
\* loop has pushed after them; progressOf: the events it has emitted.
callsOf(items, n) == [k \in 1..n |-> [item |-> items[k], index |-> k - 1]]

resultsOf(items, n) ==
    LET ok == SelectSeq(callsOf(items, n), LAMBDA c : c.item \notin failing)
    IN  [k \in 1..Len(ok) |-> realEncryption(ok[k].item, ok[k].index)]

errorsOf(items, n) ==
    LET bad == SelectSeq(callsOf(items, n), LAMBDA c : c.item \in failing)
    IN  [k \in 1..Len(bad) |-> [chunk |-> chunkIndex, index |-> bad[k].index]]

progressOf(items, n) ==
    LET at == SelectSeq(callsOf(items, n),
                        LAMBDA c : c.item \notin failing /\ c.index % ProgressEvery = 0)
    IN  [k \in 1..Len(at) |-> itemProgress(at[k].index, items)]

\* The items before which the loop can stop with the ReferenceError of forceCleanup:
\* where a sample can exceed the threshold and `global` does not exist, the first or
\* the last item of the chunk; Len(items) stands for the loop running to its end.
stopsOf(items) ==
    {Len(items)} \cup (IF perfMemory /\ hostGlobal = "undefined"
                       THEN {0, Len(items) - 1} ELSE {})

\* `await this.memoryManager.processWithMemoryCheck(chunk, processor, onProgress)`
\* settles: fulfilled with the chunk's results, or rejected by forceCleanup.
processWithMemoryCheck ==
    /\ pc = "itemLoop"
    /\ j = 0
    /\ \E stop \in stopsOf(chunk) :
          /\ j' = stop
          /\ transformLog' = transformLog \o callsOf(chunk, stop)
          /\ chunkResults' = resultsOf(chunk, stop)
          /\ errorLog' = errorLog \o errorsOf(chunk, stop)
          /\ progressEvents' = IF onProgress # NULL
                               THEN progressEvents \o progressOf(chunk, stop)
                               ELSE progressEvents
          /\ pc' = IF stop = Len(chunk) THEN "onChunk" ELSE "rejected"
          /\ thrown' = IF stop = Len(chunk) THEN thrown ELSE GlobalReferenceError
    /\ UNCHANGED <<appVars, hostVars, cipherVars, cleanupCallbacks, argVars, i, chunk, chunkIndex,
                   totalChunks, results, memInfo, cleanupVars, pending, chunkLog,
                   onChunkCalls, cleanupCount, paused>>

\* ---------------------------------------------------------- StreamProcessor
\* The call processStream(data, processor, onChunk, onProgress) on a dataset `dataset`:
\* `results = []`, totalChunks, and the loop variable set to 0. What the previous call
\* was seen to do is forgotten.
processStream(dataset) ==
    /\ results' = <<>>
    /\ totalChunks' = Ceil(Len(dataset), chunkSize)
    /\ i' = 0
    /\ pc' = "chunkLoop"
    /\ transformLog' = <<>>
    /\ chunkLog' = <<>>
    /\ onChunkCalls' = <<>>
    /\ progressEvents' = <<>>
    /\ errorLog' = <<>>
    /\ thrown' = NoError

\* processStream, loop head: `i < data.length`, the chunk is cut and handed to
\* processWithMemoryCheck (whose `results = []` and `i = 0` are set); or the results
\* are returned.
chunkLoop ==
    /\ pc = "chunkLoop"
    /\ IF i < Len(data)
       THEN /\ chunk' = slice(data, i, i + chunkSize)
            /\ chunkIndex' = Floor(i, chunkSize)
            /\ chunkLog' = Append(chunkLog, [items |-> slice(data, i, i + chunkSize),
                                             chunkIndex |-> Floor(i, chunkSize)])
            /\ chunkResults' = <<>>
            /\ j' = 0
            /\ pc' = "itemLoop"
       ELSE /\ pc' = "done"
            /\ UNCHANGED <<chunk, chunkIndex, chunkLog, chunkResults, j>>
    /\ UNCHANGED <<appVars, hostVars, cipherVars, cleanupCallbacks, argVars, i, totalChunks, results, memInfo,
                   cleanupVars, transformLog, pending, onChunkCalls, progressEvents,
                   errorLog, cleanupCount, paused, thrown>>

\* A log that keeps the last 20 entries before it adds the new one
addToLogKeepsTwenty(log, message) ==
    Append(SubSeq(log, Max(1, Len(log) - LogKeep), Len(log)), message)

\* setProcessingLog(prev => [...prev.slice(-19), entry])
addToLog(log, message) ==
    Append(SubSeq(log, Max(1, Len(log) - LogKeep + 1), Len(log)), message)

\* The onChunk callback handleProcessData passes: the progress it computes
chunkCallbackProgress(idx, total) ==
    [processed |-> (idx + 1) * chunkSize,
     total |-> dataSize,
     percentage |-> Percentage(idx + 1, total),
     currentChunk |-> idx + 1,
     totalChunks |-> total]

\* onChunk handed everything accumulated so far in place of the chunk's own results
onChunkStepAllResults ==
    /\ pc = "onChunk"
    /\ onChunkCalls' = IF onChunk # NULL
                       THEN Append(onChunkCalls, [chunkResults |-> push(results, chunkResults),
                                                  chunkIndex |-> chunkIndex,
                                                  totalChunks |-> totalChunks])
                       ELSE onChunkCalls
    /\ IF onChunk = "chunkCallback"
       THEN /\ processingLog' = addToLog(processingLog,
                                   <<"Encrypted chunk", chunkIndex + 1, totalChunks,
                                     Len(push(results, chunkResults))>>)
            /\ logged' = Append(logged, <<"Encrypted chunk", chunkIndex + 1, totalChunks,
                                          Len(push(results, chunkResults))>>)
            /\ progress' = chunkCallbackProgress(chunkIndex, totalChunks)
       ELSE UNCHANGED <<processingLog, logged, progress>>
    /\ pc' = "afterOnChunk"
    /\ UNCHANGED <<dataSize, isProcessing, isAnimating, resultsState, error, success,
                   encryptionKey, keyInit, timer, runs, monitorVars>>
    /\ UNCHANGED <<hostVars, cipherVars, cleanupCallbacks, argVars, i, chunk, chunkIndex, totalChunks,
                   results, itemVars, cleanupVars, transformLog, pending, chunkLog,
                   progressEvents, errorLog, cleanupCount, paused, thrown>>

\* processStream going on without invoking onChunk
onChunkStepDeferred ==
    /\ pc = "onChunk"
    /\ pc' = "afterOnChunk"
    /\ UNCHANGED <<appVars, hostVars, cipherVars, cleanupCallbacks, argVars, i, chunk, chunkIndex,
                   totalChunks, results, itemVars, cleanupVars, obsVars>>

\* processStream, `if (onChunk) { await onChunk(chunkResults, chunkIndex, totalChunks); }`:
\* a recording callback only receives its arguments, the callback of handleProcessData
\* logs the chunk and sets the displayed progress.
onChunkStep ==
    /\ pc = "onChunk"
    /\ onChunkCalls' = IF onChunk # NULL
                       THEN Append(onChunkCalls, [chunkResults |-> chunkResults,
                                                  chunkIndex |-> chunkIndex,
                                                  totalChunks |-> totalChunks])
                       ELSE onChunkCalls
    /\ IF onChunk = "chunkCallback"
       THEN /\ processingLog' = addToLog(processingLog,
                                   <<"Encrypted chunk", chunkIndex + 1, totalChunks,
                                     Len(chunkResults)>>)
            /\ logged' = Append(logged, <<"Encrypted chunk", chunkIndex + 1, totalChunks,
                                          Len(chunkResults)>>)
            /\ progress' = chunkCallbackProgress(chunkIndex, totalChunks)
       ELSE UNCHANGED <<processingLog, logged, progress>>
    /\ pc' = "afterOnChunk"
    /\ UNCHANGED <<dataSize, isProcessing, isAnimating, resultsState, error, success,
                   encryptionKey, keyInit, timer, runs, monitorVars>>
    /\ UNCHANGED <<hostVars, cipherVars, cleanupCallbacks, argVars, i, chunk, chunkIndex, totalChunks,
                   results, itemVars, cleanupVars, transformLog, pending, chunkLog,
                   progressEvents, errorLog, cleanupCount, paused, thrown>>

\* The release as it would act if the chunk were a view on the dataset and not the
\* copy data.slice makes: the chunk's records leave the dataset too.
afterOnChunkReleasesInput ==
    /\ pc = "afterOnChunk"
    /\ results' = push(results, chunkResults)
    /\ chunk' = <<>>
    /\ data' = SubSeq(data, 1, i) \o SubSeq(data, i + Len(chunk) + 1, Len(data))
    /\ \E sample \in checkMemoryUsage :
          /\ memInfo' = sample
          /\ IF overThreshold(sample, ChunkThreshold)
             THEN forceCleanup("chunk")
             ELSE /\ pc' = "chunkProgress"
                  /\ UNCHANGED cleanupVars
    /\ UNCHANGED <<appVars, hostVars, cipherVars, cleanupCallbacks, failing, onChunk, onProgress, chunkSize,
                   i, chunkIndex, totalChunks, j, chunkResults, obsVars>>

\* processStream, `results.push(...chunkResults); chunk.length = 0;` and the chunk-level
\* memory check.
afterOnChunk ==
    /\ pc = "afterOnChunk"
    /\ results' = push(results, chunkResults)
    /\ chunk' = <<>>
    /\ \E sample \in checkMemoryUsage :
          /\ memInfo' = sample
          /\ IF overThreshold(sample, ChunkThreshold)
             THEN forceCleanup("chunk")
             ELSE /\ pc' = "chunkProgress"
                  /\ UNCHANGED cleanupVars
    /\ UNCHANGED <<appVars, hostVars, cipherVars, cleanupCallbacks, argVars, i, chunkIndex, totalChunks,
                   j, chunkResults, obsVars>>

\* The event without Math.min: the chunk is counted at its full size
chunkProgressEventNoMin(from) ==
    [processed |-> from + chunkSize,
     total |-> Len(data),
     percentage |-> Percentage(from + chunkSize, Len(data)),
     currentChunk |-> chunkIndex + 1,
     totalChunks |-> totalChunks]

\* The ProgressEvent processStream emits after the chunk starting at `from`
chunkProgressEvent(from) ==
    [processed |-> Min(from + chunkSize, Len(data)),
     total |-> Len(data),
     percentage |-> Percentage(Min(from + chunkSize, Len(data)), Len(data)),
     currentChunk |-> chunkIndex + 1,
     totalChunks |-> totalChunks]

\* processStream, `if (onProgress) { onProgress({...}); }` and the loop's `i += this.chunkSize`
chunkProgress ==
    /\ pc = "chunkProgress"
    /\ progressEvents' = IF onProgress # NULL
                         THEN Append(progressEvents, chunkProgressEvent(i))
                         ELSE progressEvents
    /\ i' = i + chunkSize
    /\ memInfo' = NoSnapshot
    /\ cbTrace' = <<>>
    /\ cbWarned' = <<>>
    /\ gcCalled' = FALSE
    /\ pc' = "chunkLoop"
    /\ UNCHANGED <<appVars, hostVars, cipherVars, cleanupCallbacks, argVars, chunk, chunkIndex, totalChunks,
                   results, j, chunkResults, cb, ret, cbInFlight, transformLog, pending,
                   chunkLog, onChunkCalls, errorLog, cleanupCount, paused, thrown>>

\* ------------------------------------------------- direct use of the classes
\* The datasets and transforms a direct caller passes: every dataset of up to MaxData
\* records with a transform failing on any subset of them, and the 10-item scenario
\* whose transform throws at one index only.
DirectInputs ==
    UNION {{[data |-> generateLargeDataset(n), failing |-> f, chunkSize |-> c] :
               f \in SUBSET (0..(n - 1)), c \in 1..MaxChunk} : n \in 1..MaxData}
    \cup {[data |-> generateLargeDataset(ScenarioLen), failing |-> {ScenarioFail},
           chunkSize |-> ScenarioLen]}

\* useState / useRef initial values of MemoryManagementDemo, the cipher it constructs
\* (`new ZeroKnowledgeEncryption()`) included
AppStart ==
    /\ dataSize = DataSizeStart
    /\ isProcessing = FALSE
    /\ isAnimating = FALSE
    /\ progress = [processed |-> 0, total |-> 0, percentage |-> Percent(0)]
    /\ resultsState = <<>>
    /\ processingLog = <<>>
    /\ logged = <<>>
    /\ error = NoMessage
    /\ success = ""
    /\ encryptionKey = NULL
    /\ keyInit = "pending"
    /\ timer = FALSE
    /\ runs = 0
    /\ memoryInfo = NoSnapshot
    /\ memoryInfoSeen = NoSnapshot
    /\ peakMemory = NoPeak
    /\ cipher = [algorithm |-> "AES-GCM", keyLength |-> 256, ivLength |-> IvLength]
    /\ encCalls = <<>>
    /\ randomLog = <<>>

\* State after `new StreamProcessor(chunkSize)` in some host, nothing called yet.
Init ==
    /\ perfMemory \in BOOLEAN
    /\ hostGlobal \in {"undefined", "noGc", "gc"}
    /\ cleanupCallbacks = <<>>
    /\ chunkSize \in {input.chunkSize : input \in DirectInputs}
    /\ data = <<>>
    /\ failing = {}
    /\ onChunk = NULL
    /\ onProgress = NULL
    /\ pc = "idle"
    /\ i = 0
    /\ chunk = <<>>
    /\ chunkIndex = 0
    /\ totalChunks = 0
    /\ results = <<>>
    /\ j = 0
    /\ chunkResults = <<>>
    /\ memInfo = NoSnapshot
    /\ cb = 0
    /\ ret = NULL
    /\ transformLog = <<>>
    /\ pending = {}
    /\ chunkLog = <<>>
    /\ onChunkCalls = <<>>
    /\ progressEvents = <<>>
    /\ errorLog = <<>>
    /\ cbTrace = <<>>
    /\ cbWarned = <<>>
    /\ cbInFlight = {}
    /\ cleanupCount = 0
    /\ paused = FALSE
    /\ gcCalled = FALSE
    /\ thrown = NoError
    /\ AppStart

\* A direct caller invokes processStream on the processor it constructed.
callProcessStream ==
    /\ pc = "idle"
    /\ \E input \in DirectInputs :
          /\ input.chunkSize = chunkSize
          /\ data' = input.data
          /\ failing' = input.failing
          /\ processStream(input.data)
    /\ onChunk' \in {NULL, "recorder"}
    /\ onProgress' \in {NULL, "recorder"}
    /\ UNCHANGED chunkSize
    /\ UNCHANGED <<appVars, hostVars, cipherVars, cleanupCallbacks, chunk, chunkIndex, itemVars, cleanupVars,
                   pending, cleanupCount, paused>>

Next ==
    \/ registerCleanup
    \/ callProcessStream
    \/ chunkLoop
    \/ itemLoop
    \/ forceCleanupLoop
    \/ settleCallback
    \/ gcHint
    \/ pause
    \/ callProcessor
    \/ settleProcessor
    \/ yield
    \/ onChunkStep
    \/ afterOnChunk
    \/ chunkProgress

Spec == Init /\ [][Next]_vars

\* A step of a processStream run that has been invoked
RunStep ==
    \/ chunkLoop
    \/ itemLoop
    \/ forceCleanupLoop
    \/ settleCallback
    \/ gcHint
    \/ pause
    \/ callProcessor
    \/ settleProcessor
    \/ yield
    \/ onChunkStep
    \/ afterOnChunk
    \/ chunkProgress

\* The same program where every awaited transform, callback and timer settles and
\* the event loop resumes the run after it.
SpecLive == Spec /\ WF_vars(RunStep)

\* ------------------------------------------- direct use on a dataset of 1000
\* The demo's default sizes handed to processStream directly: 1000 records in chunks
\* of 500, with a transform that fails on no record, or on the records at index 100
\* and 250 of the first chunk and at index 100 of the second.
LongInputs ==
    {[data |-> generateLargeDataset(DataSizeStart), failing |-> f,
      chunkSize |-> ChunkSizeStart] :
        f \in {{}, {ProgressEvery, ChunkSizeStart \div 2, ChunkSizeStart + ProgressEvery}}}

\* State after `new StreamProcessor(chunkSize)` in some host, no cleanup callback
\* registered.
InitLong ==
    /\ perfMemory \in BOOLEAN
    /\ hostGlobal \in {"undefined", "noGc", "gc"}
    /\ cleanupCallbacks = <<>>
    /\ chunkSize \in {input.chunkSize : input \in LongInputs \cup DirectInputs}
    /\ data = <<>>
    /\ failing = {}
    /\ onChunk = NULL
    /\ onProgress = NULL
    /\ pc = "idle"
    /\ i = 0
    /\ chunk = <<>>
    /\ chunkIndex = 0
    /\ totalChunks = 0
    /\ results = <<>>
    /\ j = 0
    /\ chunkResults = <<>>
    /\ memInfo = NoSnapshot
    /\ cb = 0
    /\ ret = NULL
    /\ transformLog = <<>>
    /\ pending = {}
    /\ chunkLog = <<>>
    /\ onChunkCalls = <<>>
    /\ progressEvents = <<>>
    /\ errorLog = <<>>
    /\ cbTrace = <<>>
    /\ cbWarned = <<>>
    /\ cbInFlight = {}
    /\ cleanupCount = 0
    /\ paused = FALSE
    /\ gcCalled = FALSE
    /\ thrown = NoError
    /\ AppStart

\* The caller invokes processStream with both callbacks supplied, on the dataset of
\* 1000 or on one of the short ones.
callProcessStreamLong ==
    /\ pc = "idle"
    /\ \E input \in LongInputs \cup DirectInputs :
          /\ input.chunkSize = chunkSize
          /\ data' = input.data
          /\ failing' = input.failing
          /\ processStream(input.data)
    /\ onChunk' = "recorder"
    /\ onProgress' = "recorder"
    /\ UNCHANGED chunkSize
    /\ UNCHANGED <<appVars, hostVars, cipherVars, cleanupCallbacks, chunk, chunkIndex, itemVars, cleanupVars,
                   pending, cleanupCount, paused>>

\* The run followed chunk by chunk: processWithMemoryCheck is one step.
NextLong ==
    \/ callProcessStreamLong
    \/ chunkLoop
    \/ processWithMemoryCheck
    \/ onChunkStep
    \/ afterOnChunk
    \/ forceCleanupLoop
    \/ gcHint
    \/ chunkProgress

SpecLong == InitLong /\ [][NextLong]_vars

\* -------------------------------------------------- ZeroKnowledgeEncryption
\* The byte arrays crypto.getRandomValues can fill an array of n bytes with; the
\* source is free to return the same bytes twice.
getRandomValues(n) == {[k \in 1..n |-> (seed * 16 + k) % 256] : seed \in {0, 1, 15}}

\* encoder.encode(JSON.stringify(data)): the plaintexts handed to the cipher
PlainTexts == {<<123, 125>>, <<91, 49, 93>>}

\* crypto.subtle.encrypt with AES-GCM: as many bytes as the plaintext, then the tag
aesGcm(key, iv, plain) ==
    [k \in 1..(Len(plain) + TagLength) |->
        IF k <= Len(plain)
        THEN (plain[k] + iv[((k - 1) % Len(iv)) + 1]) % 256
        ELSE (iv[((k - 1) % Len(iv)) + 1] + k) % 256]

\* An encrypt call that has not returned yet
NoOutput == [data |-> <<>>, iv |-> <<>>]

\* encrypt that takes the nonce of the first call again when there is one
encryptReusesNonce ==
    /\ Len(encCalls) < MaxEncrypts
    /\ \E plain \in PlainTexts, iv \in getRandomValues(cipher.ivLength) :
          IF randomLog = <<>>
          THEN /\ randomLog' = Append(randomLog, [call |-> Len(encCalls) + 1, bytes |-> iv])
               /\ encCalls' = Append(encCalls, [iv |-> iv, plain |-> plain, out |-> NoOutput])
          ELSE /\ randomLog' = randomLog
               /\ encCalls' = Append(encCalls, [iv |-> randomLog[1].bytes, plain |-> plain,
                                                out |-> NoOutput])
    /\ UNCHANGED <<cipher, hostVars, cleanupCallbacks, argVars, streamVars, itemVars,
                   cleanupVars, obsVars, appVars>>

\* encrypt(data, key) up to its await: `const iv = this.generateIV()` draws the nonce
\* into a local, and crypto.subtle.encrypt is started with it.
encrypt ==
    /\ Len(encCalls) < MaxEncrypts
    /\ \E plain \in PlainTexts, iv \in getRandomValues(cipher.ivLength) :
          /\ randomLog' = Append(randomLog, [call |-> Len(encCalls) + 1, bytes |-> iv])
          /\ encCalls' = Append(encCalls, [iv |-> iv, plain |-> plain, out |-> NoOutput])
    /\ UNCHANGED <<cipher, hostVars, cleanupCallbacks, argVars, streamVars, itemVars,
                   cleanupVars, obsVars, appVars>>

\* encrypt after its await: `combined` is the nonce followed by what
\* crypto.subtle.encrypt returned, and iv is a copy of the nonce.
encryptReturn ==
    /\ \E c \in 1..Len(encCalls) :
          /\ encCalls[c].out = NoOutput
          /\ encCalls' = [encCalls EXCEPT ![c].out =
                             [data |-> encCalls[c].iv
                                         \o aesGcm("key", encCalls[c].iv, encCalls[c].plain),
                              iv |-> encCalls[c].iv]]
    /\ UNCHANGED <<cipher, randomLog, hostVars, cleanupCallbacks, argVars, streamVars, itemVars,
                   cleanupVars, obsVars, appVars>>

\* ------------------------------------------------------ MemoryManagementDemo
\* ERROR_TYPES
ERROR_TYPES ==
    [VALIDATION |-> "validation", ENCRYPTION |-> "encryption", MEMORY |-> "memory",
     BROWSER_SUPPORT |-> "browser_support"]

createError(type, message, suggestion) ==
    [type |-> type, message |-> message, suggestion |-> suggestion]

\* new Error('Encryption key not initialized'); `mentions` holds the substrings
\* getErrorDetails looks for that the message contains (includes is case-sensitive).
KeyNotInitialized ==
    [name |-> "Error", message |-> "Encryption key not initialized", mentions |-> {"key"}]

\* getErrorDetails with the memory test ahead of the encryption test
getErrorDetailsMemoryFirst(err) ==
    IF "crypto" \in err.mentions \/ "subtle" \in err.mentions
    THEN createError(ERROR_TYPES.BROWSER_SUPPORT,
                     "Browser does not support required cryptographic features",
                     "Please use a modern browser with Web Crypto API support")
    ELSE IF "memory" \in err.mentions \/ "Memory" \in err.mentions
    THEN createError(ERROR_TYPES.MEMORY, "Insufficient memory to process this dataset",
                     "Try reducing the dataset size or chunk size")
    ELSE IF "encrypt" \in err.mentions \/ "key" \in err.mentions
    THEN createError(ERROR_TYPES.ENCRYPTION, "Failed to encrypt data",
                     "Please check your input data and try again")
    ELSE createError(ERROR_TYPES.ENCRYPTION,
                     "An unexpected error occurred during processing",
                     "Please try again with a smaller dataset")

\* getErrorDetails(error)
getErrorDetails(err) ==
    IF "crypto" \in err.mentions \/ "subtle" \in err.mentions
    THEN createError(ERROR_TYPES.BROWSER_SUPPORT,
                     "Browser does not support required cryptographic features",
                     "Please use a modern browser with Web Crypto API support")
    ELSE IF "encrypt" \in err.mentions \/ "key" \in err.mentions
    THEN createError(ERROR_TYPES.ENCRYPTION, "Failed to encrypt data",
                     "Please check your input data and try again")
    ELSE IF "memory" \in err.mentions \/ "Memory" \in err.mentions
    THEN createError(ERROR_TYPES.MEMORY, "Insufficient memory to process this dataset",
                     "Try reducing the dataset size or chunk size")
    ELSE createError(ERROR_TYPES.ENCRYPTION,
                     "An unexpected error occurred during processing",
                     "Please try again with a smaller dataset")

\* The validation without its chunk-size test
validateSizesOnly(size, chunk_size) ==
    IF size > DataSizeMax
    THEN createError(ERROR_TYPES.VALIDATION, "Dataset size is too large",
                     "Please use a dataset smaller than 100,000 records")
    ELSE IF size < DataSizeMin
    THEN createError(ERROR_TYPES.VALIDATION, "Dataset size is too small",
                     "Please use a dataset of at least 500 records")
    ELSE NoMessage

\* handleProcessData, "Enhanced validation": the error set, or NoMessage when the
\* configuration passes.
validate(size, chunk_size) ==
    IF size > DataSizeMax
    THEN createError(ERROR_TYPES.VALIDATION, "Dataset size is too large",
                     "Please use a dataset smaller than 100,000 records")
    ELSE IF size < DataSizeMin
    THEN createError(ERROR_TYPES.VALIDATION, "Dataset size is too small",
                     "Please use a dataset of at least 500 records")
    ELSE IF chunk_size > size
    THEN createError(ERROR_TYPES.VALIDATION,
                     "Chunk size cannot be larger than dataset size",
                     "Please adjust the chunk size to be smaller than the dataset size")
    ELSE NoMessage

\* The key test with the wrong sense for a missing key
keyMissingIgnored(key) == FALSE

\* handleProcessData, `if (!encryptionKeyRef.current)`
keyMissing(key) == key = NULL

\* The positions of the two range inputs
DataSizes == {k * SliderStep : k \in (DataSizeMin \div SliderStep)..MaxDataSteps}
ChunkSizes == {k * SliderStep : k \in (DataSizeMin \div SliderStep)..(ChunkSizeMax \div SliderStep)}

\* The dataset-size slider's onChange (disabled while processing); the render that
\* follows makes a new handleProcessData, which captures the memoryInfo of that render.
setDataSizeTo(values) ==
    /\ ~isProcessing
    /\ \E value \in values \ {dataSize} : dataSize' = value
    /\ memoryInfoSeen' = memoryInfo
    /\ UNCHANGED <<isProcessing, isAnimating, progress, resultsState, processingLog, logged,
                   error, success, encryptionKey, keyInit, timer, runs, memoryInfo,
                   peakMemory>>
    /\ UNCHANGED <<hostVars, cipherVars, cleanupCallbacks, argVars, streamVars, itemVars, cleanupVars,
                   obsVars>>

setDataSize == setDataSizeTo(DataSizes)

\* A chunk-size slider that stays enabled during a run
setChunkSizeWhileProcessing ==
    /\ \E value \in ChunkSizes \ {chunkSize} : chunkSize' = value
    /\ cleanupCallbacks' = <<>>
    /\ memoryInfoSeen' = memoryInfo
    /\ UNCHANGED <<dataSize, isProcessing, isAnimating, progress, resultsState, processingLog, logged,
                   error, success, encryptionKey, keyInit, timer, runs, memoryInfo,
                   peakMemory>>
    /\ UNCHANGED <<hostVars, cipherVars, data, failing, onChunk, onProgress, streamVars,
                   itemVars, cleanupVars, obsVars>>

\* The chunk-size slider's onChange (disabled while processing), the new
\* handleProcessData of the render that follows, and the effect after it:
\* streamProcessorRef.current = new StreamProcessor(chunkSize).
setChunkSize ==
    /\ ~isProcessing
    /\ \E value \in ChunkSizes \ {chunkSize} : chunkSize' = value
    /\ cleanupCallbacks' = <<>>
    /\ memoryInfoSeen' = memoryInfo
    /\ UNCHANGED <<dataSize, isProcessing, isAnimating, progress, resultsState, processingLog, logged,
                   error, success, encryptionKey, keyInit, timer, runs, memoryInfo,
                   peakMemory>>
    /\ UNCHANGED <<hostVars, cipherVars, data, failing, onChunk, onProgress, streamVars,
                   itemVars, cleanupVars, obsVars>>

\* initializeEncryption settles: the derived key is stored, or the failure is logged
\* to the console and the ref stays null.
initializeEncryption ==
    /\ keyInit = "pending"
    /\ keyInit' = "settled"
    /\ encryptionKey' \in {"key", NULL}
    /\ UNCHANGED <<dataSize, isProcessing, isAnimating, progress, resultsState,
                   processingLog, logged, error, success, timer, runs, monitorVars>>
    /\ UNCHANGED <<hostVars, cipherVars, cleanupCallbacks, argVars, streamVars, itemVars, cleanupVars,
                   obsVars>>

\* handleProcessData without its setSuccess(''): an earlier success message stays
handleProcessDataKeepsSuccess ==
    /\ ~isProcessing
    /\ UNCHANGED success
    /\ IF validate(dataSize, chunkSize) # NoMessage
       THEN /\ error' = validate(dataSize, chunkSize)
            /\ UNCHANGED <<dataSize, isProcessing, isAnimating, progress, resultsState,
                           processingLog, logged, encryptionKey, keyInit, timer, runs, monitorVars>>
            /\ UNCHANGED <<hostVars, cipherVars, cleanupCallbacks, argVars, streamVars, itemVars,
                           cleanupVars, obsVars>>
       ELSE /\ runs < MaxRuns
            /\ runs' = runs + 1
            /\ isProcessing' = TRUE
            /\ isAnimating' = TRUE
            /\ resultsState' = <<>>
            /\ progress' = [processed |-> 0, total |-> dataSize, percentage |-> Percent(0)]
            /\ peakMemory' = IF memoryInfoSeen.available THEN memoryInfoSeen.usedMB ELSE 0
            /\ IF keyMissing(encryptionKey)
               THEN /\ error' = getErrorDetails(KeyNotInitialized)
                    /\ processingLog' =
                          addToLog(addToLog(processingLog, <<"Starting encryption", dataSize>>),
                                   <<"Error", getErrorDetails(KeyNotInitialized).message>>)
                    /\ logged' = logged \o <<<<"Starting encryption", dataSize>>,
                                              <<"Error",
                                                getErrorDetails(KeyNotInitialized).message>>>>
                    /\ timer' = TRUE
                    /\ UNCHANGED <<argVars, streamVars, transformLog, chunkLog,
                                   onChunkCalls, progressEvents, errorLog, thrown>>
               ELSE /\ error' = NoMessage
                    /\ processingLog' =
                          addToLog(addToLog(addToLog(processingLog,
                                                     <<"Starting encryption", dataSize>>),
                                            <<"Generated dataset", dataSize>>),
                                   <<"Using real AES-256-GCM encryption">>)
                    /\ logged' = logged \o <<<<"Starting encryption", dataSize>>,
                                              <<"Generated dataset", dataSize>>,
                                              <<"Using real AES-256-GCM encryption">>>>
                    /\ data' = generateLargeDataset(dataSize)
                    /\ failing' = {}
                    /\ onChunk' = "chunkCallback"
                    /\ onProgress' = NULL
                    /\ processStream(generateLargeDataset(dataSize))
                    /\ UNCHANGED <<chunkSize, chunk, chunkIndex, timer>>
            /\ UNCHANGED <<dataSize, encryptionKey, keyInit, memoryInfo, memoryInfoSeen>>
            /\ UNCHANGED <<hostVars, cipherVars, cleanupCallbacks, itemVars, cleanupVars, pending,
                           cleanupCount, paused>>

\* handleProcessData up to its first suspension: messages cleared, validation, the run's
\* state set, and then either the missing key caught (catch and finally run at once) or
\* the dataset generated and processStream called. A derived key encrypts every record,
\* so the transform passed fails on none.
handleProcessDataWithin(limit) ==
    /\ ~isProcessing
    /\ success' = ""
    /\ IF validate(dataSize, chunkSize) # NoMessage
       THEN /\ error' = validate(dataSize, chunkSize)
            /\ UNCHANGED <<dataSize, isProcessing, isAnimating, progress, resultsState,
                           processingLog, logged, encryptionKey, keyInit, timer, runs, monitorVars>>
            /\ UNCHANGED <<hostVars, cipherVars, cleanupCallbacks, argVars, streamVars, itemVars,
                           cleanupVars, obsVars>>
       ELSE /\ runs < limit
            /\ runs' = runs + 1
            /\ isProcessing' = TRUE
            /\ isAnimating' = TRUE
            /\ resultsState' = <<>>
            /\ progress' = [processed |-> 0, total |-> dataSize, percentage |-> Percent(0)]
            /\ peakMemory' = IF memoryInfoSeen.available THEN memoryInfoSeen.usedMB ELSE 0
            /\ IF keyMissing(encryptionKey)
               THEN /\ error' = getErrorDetails(KeyNotInitialized)
                    /\ processingLog' =
                          addToLog(addToLog(processingLog, <<"Starting encryption", dataSize>>),
                                   <<"Error", getErrorDetails(KeyNotInitialized).message>>)
                    /\ logged' = logged \o <<<<"Starting encryption", dataSize>>,
                                              <<"Error",
                                                getErrorDetails(KeyNotInitialized).message>>>>
                    /\ timer' = TRUE
                    /\ UNCHANGED <<argVars, streamVars, transformLog, chunkLog,
                                   onChunkCalls, progressEvents, errorLog, thrown>>
               ELSE /\ error' = NoMessage
                    /\ processingLog' =
                          addToLog(addToLog(addToLog(processingLog,
                                                     <<"Starting encryption", dataSize>>),
                                            <<"Generated dataset", dataSize>>),
                                   <<"Using real AES-256-GCM encryption">>)
                    /\ logged' = logged \o <<<<"Starting encryption", dataSize>>,
                                              <<"Generated dataset", dataSize>>,
                                              <<"Using real AES-256-GCM encryption">>>>
                    /\ data' = generateLargeDataset(dataSize)
                    /\ failing' = {}
                    /\ onChunk' = "chunkCallback"
                    /\ onProgress' = NULL
                    /\ processStream(generateLargeDataset(dataSize))
                    /\ UNCHANGED <<chunkSize, chunk, chunkIndex, timer>>
            /\ UNCHANGED <<dataSize, encryptionKey, keyInit, memoryInfo, memoryInfoSeen>>
            /\ UNCHANGED <<hostVars, cipherVars, cleanupCallbacks, itemVars, cleanupVars, pending,
                           cleanupCount, paused>>

handleProcessData == handleProcessDataWithin(MaxRuns)

\* The awaited processStream call has settled and handleProcessData has taken its
\* outcome: the call's locals no longer exist, and what it was seen to do is dropped.
callEnded ==
    /\ pc' = "idle"
    /\ data' = <<>>
    /\ chunk' = <<>>
    /\ results' = <<>>
    /\ chunkResults' = <<>>
    /\ i' = 0
    /\ j' = 0
    /\ chunkIndex' = 0
    /\ totalChunks' = 0
    /\ transformLog' = <<>>
    /\ chunkLog' = <<>>
    /\ onChunkCalls' = <<>>
    /\ progressEvents' = <<>>
    /\ errorLog' = <<>>
    /\ thrown' = NoError
    /\ UNCHANGED <<failing, onChunk, onProgress, chunkSize, memInfo, cleanupVars, pending,
                   cleanupCount, paused>>

\* handleProcessData resumes after `await processStream(...)` fulfilled: results, final
\* progress, the two closing log lines, the success message; then finally.
resumeProcessData ==
    /\ pc = "done"
    /\ isProcessing
    /\ resultsState' = results
    /\ progress' = [processed |-> dataSize, total |-> dataSize, percentage |-> Percent(100),
                    currentChunk |-> Ceil(dataSize, chunkSize),
                    totalChunks |-> Ceil(dataSize, chunkSize)]
    /\ processingLog' = addToLog(addToLog(processingLog,
                                          <<"Encryption complete!", Len(results)>>),
                                 <<"Total time, Peak memory">>)
    /\ logged' = logged \o <<<<"Encryption complete!", Len(results)>>,
                              <<"Total time, Peak memory">>>>
    /\ success' = "Data encrypted successfully!"
    /\ timer' = TRUE
    /\ callEnded
    /\ UNCHANGED <<dataSize, isProcessing, isAnimating, error, encryptionKey, keyInit, runs,
                   monitorVars>>
    /\ UNCHANGED <<hostVars, cipherVars, cleanupCallbacks>>

\* A catch that is not followed by the finally block
catchProcessDataNoFinally ==
    /\ pc = "rejected"
    /\ isProcessing
    /\ error' = getErrorDetails(thrown)
    /\ processingLog' = addToLog(processingLog, <<"Error", getErrorDetails(thrown).message>>)
    /\ logged' = Append(logged, <<"Error", getErrorDetails(thrown).message>>)
    /\ UNCHANGED timer
    /\ callEnded
    /\ UNCHANGED <<dataSize, isProcessing, isAnimating, progress, resultsState, success,
                   encryptionKey, keyInit, runs, monitorVars>>
    /\ UNCHANGED <<hostVars, cipherVars, cleanupCallbacks>>

\* handleProcessData resumes after `await processStream(...)` rejected: catch, then finally.
catchProcessData ==
    /\ pc = "rejected"
    /\ isProcessing
    /\ error' = getErrorDetails(thrown)
    /\ processingLog' = addToLog(processingLog, <<"Error", getErrorDetails(thrown).message>>)
    /\ logged' = Append(logged, <<"Error", getErrorDetails(thrown).message>>)
    /\ timer' = TRUE
    /\ callEnded
    /\ UNCHANGED <<dataSize, isProcessing, isAnimating, progress, resultsState, success,
                   encryptionKey, keyInit, runs, monitorVars>>
    /\ UNCHANGED <<hostVars, cipherVars, cleanupCallbacks>>

\* The callback of finally's setTimeout(..., 1000)
finallyTimeout ==
    /\ timer
    /\ timer' = FALSE
    /\ isProcessing' = FALSE
    /\ isAnimating' = FALSE
    /\ UNCHANGED <<dataSize, progress, resultsState, processingLog, logged, error, success,
                   encryptionKey, keyInit, runs, monitorVars>>
    /\ UNCHANGED <<hostVars, cipherVars, cleanupCallbacks, argVars, streamVars, itemVars, cleanupVars,
                   obsVars>>

\* handleClearData (the Clear button is disabled while processing)
handleClearData ==
    /\ ~isProcessing
    /\ resultsState' = <<>>
    /\ progress' = [processed |-> 0, total |-> 0, percentage |-> Percent(0)]
    /\ processingLog' = addToLog(<<>>, <<"Data cleared and memory freed">>)
    /\ logged' = <<<<"Data cleared and memory freed">>>>
    /\ error' = NoMessage
    /\ success' = ""
    /\ peakMemory' = NoPeak
    /\ UNCHANGED <<dataSize, isProcessing, isAnimating, encryptionKey, keyInit, timer, runs,
                   memoryInfo, memoryInfoSeen>>
    /\ UNCHANGED <<hostVars, cipherVars, cleanupCallbacks, argVars, streamVars, itemVars, cleanupVars,
                   obsVars>>

\* The mounted component in some host: the effects have created the StreamProcessor
\* and started the key derivation.
InitApp ==
    /\ perfMemory \in BOOLEAN
    /\ hostGlobal \in {"undefined", "noGc", "gc"}
    /\ cleanupCallbacks = <<>>
    /\ chunkSize = ChunkSizeStart
    /\ data = <<>>
    /\ failing = {}
    /\ onChunk = NULL
    /\ onProgress = NULL
    /\ pc = "idle"
    /\ i = 0
    /\ chunk = <<>>
    /\ chunkIndex = 0
    /\ totalChunks = 0
    /\ results = <<>>
    /\ j = 0
    /\ chunkResults = <<>>
    /\ memInfo = NoSnapshot
    /\ cb = 0
    /\ ret = NULL
    /\ transformLog = <<>>
    /\ pending = {}
    /\ chunkLog = <<>>
    /\ onChunkCalls = <<>>
    /\ progressEvents = <<>>
    /\ errorLog = <<>>
    /\ cbTrace = <<>>
    /\ cbWarned = <<>>
    /\ cbInFlight = {}
    /\ cleanupCount = 0
    /\ paused = FALSE
    /\ gcCalled = FALSE
    /\ thrown = NoError
    /\ AppStart

NextApp ==
    \/ initializeEncryption
    \/ setDataSize
    \/ setChunkSize
    \/ handleProcessData
    \/ handleClearData
    \/ chunkLoop
    \/ processWithMemoryCheck
    \/ onChunkStep
    \/ afterOnChunk
    \/ forceCleanupLoop
    \/ gcHint
    \/ chunkProgress
    \/ resumeProcessData
    \/ catchProcessData
    \/ finallyTimeout

SpecApp == InitApp /\ [][NextApp]_vars

\* The dataset sizes of the first MaxSizeSteps slider positions
WideDataSizes == {k * SliderStep : k \in (DataSizeMin \div SliderStep)..MaxSizeSteps}

\* The component with the dataset-size slider moved over more of its range, so that
\* the chunk size need not divide the dataset size.
NextSizes ==
    \/ initializeEncryption
    \/ setDataSizeTo(WideDataSizes)
    \/ setChunkSize
    \/ handleProcessData
    \/ handleClearData
    \/ chunkLoop
    \/ processWithMemoryCheck
    \/ onChunkStep
    \/ afterOnChunk
    \/ forceCleanupLoop
    \/ gcHint
    \/ chunkProgress
    \/ resumeProcessData
    \/ catchProcessData
    \/ finallyTimeout

SpecSizes == InitApp /\ [][NextSizes]_vars

\* What the event loop does for a run of the component once it is due: resume the
\* stream after an await, resume handleProcessData after processStream settled, run
\* the finally timer's callback.
AppRunStep ==
    \/ chunkLoop
    \/ processWithMemoryCheck
    \/ onChunkStep
    \/ afterOnChunk
    \/ forceCleanupLoop
    \/ gcHint
    \/ chunkProgress
    \/ resumeProcessData
    \/ catchProcessData
    \/ finallyTimeout

\* The component with the dataset size left at its initial value
NextStarts ==
    \/ initializeEncryption
    \/ setChunkSize
    \/ handleProcessData
    \/ AppRunStep

\* That component where every awaited promise settles and every timer fires
SpecAppLive == InitApp /\ [][NextStarts]_vars /\ WF_vars(AppRunStep)

\* The two lowest positions of the dataset-size slider
NearSizes == {DataSizeMin, DataSizeStart}

\* The component used for several runs one after another, the dataset-size slider
\* moved between its two lowest positions.
NextRuns ==
    \/ initializeEncryption
    \/ setDataSizeTo(NearSizes)
    \/ setChunkSize
    \/ handleProcessDataWithin(MaxStarts)
    \/ handleClearData
    \/ chunkLoop
    \/ processWithMemoryCheck
    \/ onChunkStep
    \/ afterOnChunk
    \/ forceCleanupLoop
    \/ gcHint
    \/ chunkProgress
    \/ resumeProcessData
    \/ catchProcessData
    \/ finallyTimeout

SpecRuns == InitApp /\ [][NextRuns]_vars

\* Some handler of the component calls addToLog(message); the entry's id is the time
\* of the call, so no two messages of the model are the same.
callAddToLog ==
    /\ Len(logged) < MaxLogged
    /\ processingLog' = addToLog(processingLog, <<"entry", Len(logged) + 1>>)
    /\ logged' = Append(logged, <<"entry", Len(logged) + 1>>)
    /\ UNCHANGED <<dataSize, isProcessing, isAnimating, progress, resultsState, error, success,
                   encryptionKey, keyInit, timer, runs, monitorVars>>
    /\ UNCHANGED <<hostVars, cipherVars, cleanupCallbacks, argVars, streamVars, itemVars,
                   cleanupVars, obsVars>>

\* The log on its own: entries are added and the log is cleared, in any order
NextLog ==
    \/ callAddToLog
    \/ handleClearData

SpecLog == InitApp /\ [][NextLog]_vars

\* The cipher used on its own: encrypt calls, which may overlap
NextCipher ==
    \/ encrypt
    \/ encryptReturn

SpecCipher == InitApp /\ [][NextCipher]_vars

\* The program is suspended and a timer callback can run: between runs, and during a
\* run at the awaits of processWithMemoryCheck (the transform, the zero-delay yields,
\* the 100 ms pauses), which the one-step processWithMemoryCheck has at its start.
suspended == pc = "idle" \/ (pc = "itemLoop" /\ j = 0)

\* A monitor that also drops what the run has accumulated
memoryMonitorTickClearsResults ==
    /\ suspended
    /\ results' = <<>>
    /\ \E usage \in checkMemoryUsage :
          IF usage.available
          THEN /\ memoryInfo' = usage
               /\ peakMemory' = IF isProcessing /\ (peakMemory \in {NoPeak, 0}
                                                     \/ usage.usedMB > peakMemory)
                                 THEN usage.usedMB
                                 ELSE peakMemory
          ELSE UNCHANGED <<memoryInfo, peakMemory>>
    /\ UNCHANGED <<dataSize, isProcessing, isAnimating, progress, resultsState, processingLog, logged,
                   error, success, encryptionKey, keyInit, timer, runs, memoryInfoSeen>>
    /\ UNCHANGED <<hostVars, cipherVars, cleanupCallbacks, argVars, pc, i, chunk, chunkIndex, totalChunks,
                   itemVars, cleanupVars, obsVars>>

\* The setInterval callback of the memory-monitoring effect: a MemoryManager of its
\* own samples the heap, the snapshot is displayed, and during a run the peak is raised.
memoryMonitorTick ==
    /\ suspended
    /\ \E usage \in checkMemoryUsage :
          IF usage.available
          THEN /\ memoryInfo' = usage
               /\ peakMemory' = IF isProcessing /\ (peakMemory \in {NoPeak, 0}
                                                     \/ usage.usedMB > peakMemory)
                                 THEN usage.usedMB
                                 ELSE peakMemory
          ELSE UNCHANGED <<memoryInfo, peakMemory>>
    /\ UNCHANGED <<dataSize, isProcessing, isAnimating, progress, resultsState, processingLog, logged,
                   error, success, encryptionKey, keyInit, timer, runs, memoryInfoSeen>>
    /\ UNCHANGED <<hostVars, cipherVars, cleanupCallbacks, argVars, streamVars, itemVars, cleanupVars,
                   obsVars>>

\* The component with its memory monitor running, the sliders left where they are
NextMonitor ==
    \/ memoryMonitorTick
    \/ initializeEncryption
    \/ handleProcessData
    \/ handleClearData
    \/ chunkLoop
    \/ processWithMemoryCheck
    \/ onChunkStep
    \/ afterOnChunk
    \/ forceCleanupLoop
    \/ gcHint
    \/ chunkProgress
    \/ resumeProcessData
    \/ catchProcessData
    \/ finallyTimeout

SpecMonitor == InitApp /\ [][NextMonitor]_vars

\* ------------------------------------------------------------ consistency
\* The one-step processWithMemoryCheck agrees with the item-by-item loop: when the
\* loop over a chunk has ended, or has been stopped by forceCleanup before item j,
\* the chunk's results, calls, logged errors and progress events are those the one
\* step computes.
ChunkStepAgrees ==
    (pc = "onChunk" \/ (pc = "rejected" /\ ret = "item"))
        => LET n == IF pc = "onChunk" THEN Len(chunk) ELSE j
               sinceChunk == Len(progressOf(chunk, n))
           IN  /\ chunkResults = resultsOf(chunk, n)
               /\ SubSeq(transformLog, Len(transformLog) - n + 1, Len(transformLog))
                     = callsOf(chunk, n)
               /\ SelectSeq(errorLog, LAMBDA e : e.chunk = chunkIndex) = errorsOf(chunk, n)
               /\ onProgress # NULL =>
                     /\ SubSeq(progressEvents, Len(progressEvents) - sinceChunk + 1,
                               Len(progressEvents)) = progressOf(chunk, n)
                     /\ Len(progressEvents) - sinceChunk > 0
                           => "currentChunk" \in
                                 DOMAIN progressEvents[Len(progressEvents) - sinceChunk]

\* ------------------------------------------------------------------ claims
\* The records of `dataset` on which the transform succeeds, in dataset order
succeeding(dataset) == SelectSeq(dataset, LAMBDA record : record \notin failing)

\* The source records of a sequence of EncryptedRecords
sourcesOf(records) == [k \in 1..Len(records) |-> records[k].originalData]

\* The 0-based position of `record` in the dataset
positionOf(record) == CHOOSE p \in 0..(Len(data) - 1) : data[p + 1] = record

\* C1: when processStream returns, the returned sequence has as many elements as
\* there are records on which the transform succeeded, and its elements come from
\* exactly those records, in dataset order, across chunk boundaries.
C1_ResultsInOrder ==
    pc = "done" =>
        /\ Len(results) = Cardinality({k \in 1..Len(data) : data[k] \notin failing})
        /\ sourcesOf(results) = succeeding(data)

C1_Witness ==
    /\ pc = "done"
    /\ Len(chunkLog) >= 2
    /\ failing # {}
    /\ Len(results) >= 2
    /\ Len(results) < Len(data)

\* C2: every EncryptedRecord has the id of its source record's position in the
\* original dataset, in every chunk.
C2_IdIsDatasetPosition ==
    \A k \in 1..Len(results) : results[k].id = positionOf(results[k].originalData)

\* C3: the number of chunks is the least m with m * chunkSize >= n, it is what
\* totalChunks reports to onChunk and onProgress, chunk k has index k, every chunk
\* but the last has chunkSize items and the last has n mod chunkSize items (chunkSize
\* when that is 0); a call that returns has processed exactly that many chunks.
C3_ChunkGeometry ==
    pc \notin {"idle"} =>
        LET n == Len(data)
            lastSize == IF n % chunkSize = 0 THEN chunkSize ELSE n % chunkSize
        IN  /\ totalChunks * chunkSize >= n
            /\ (totalChunks - 1) * chunkSize < n
            /\ Len(chunkLog) <= totalChunks
            /\ \A k \in 1..Len(chunkLog) :
                  /\ chunkLog[k].chunkIndex = k - 1
                  /\ Len(chunkLog[k].items) = IF k < totalChunks THEN chunkSize ELSE lastSize
            /\ \A k \in 1..Len(onChunkCalls) : onChunkCalls[k].totalChunks = totalChunks
            /\ \A k \in 1..Len(progressEvents) :
                  "totalChunks" \in DOMAIN progressEvents[k]
                      => progressEvents[k].totalChunks = totalChunks
            /\ pc = "done" => Len(chunkLog) = totalChunks

C3_Witness ==
    /\ pc = "done"
    /\ Len(chunkLog) >= 2
    /\ Len(data) % chunkSize # 0
    /\ Len(chunkLog[Len(chunkLog)].items) = Len(data) % chunkSize
    /\ onChunkCalls # <<>>
    /\ progressEvents # <<>>

\* The records handed to the transform, in call order
transformed == [k \in 1..Len(transformLog) |-> transformLog[k].item]

\* C4: the chunks are contiguous, do not overlap and cover the dataset: the
\* transform calls follow the dataset record by record, none skipped and none
\* repeated, and a run that has ended has transformed every record, whether or not
\* cleanup, pauses or per-item failures occurred.
C4_EveryRecordOnce ==
    /\ Len(transformed) <= Len(data)
    /\ transformed = SubSeq(data, 1, Len(transformed))
    /\ pc \in {"done", "rejected"} => transformed = data

\* The console.error entries expected for the calls settled so far
expectedErrors ==
    LET settled == SelectSeq(transformLog, LAMBDA c : c.item \notin pending)
        bad == SelectSeq(settled, LAMBDA c : c.item \in failing)
    IN  [k \in 1..Len(bad) |-> bad[k].index]

\* C5: a transform failure is caught and logged with the item's index, the item is
\* left out of the results, the loop goes on to the next item with nothing thrown,
\* and a call that returns has transformed the items after the failed one too; with
\* 10 items and a failure at index 3 only, 9 results are returned.
C5_FailureIsAbsorbed ==
    /\ [](/\ \A k \in 1..Len(chunkResults) : chunkResults[k].originalData \notin failing
          /\ \A k \in 1..Len(results) : results[k].originalData \notin failing
          /\ [k \in 1..Len(errorLog) |-> errorLog[k].index] = expectedErrors
          /\ pc = "done" => Len(transformLog) = Len(data)
          /\ (pc = "done" /\ Len(data) = ScenarioLen /\ failing = {ScenarioFail})
                => /\ Len(results) = ScenarioLen - 1
                   /\ errorLog = <<[chunk |-> 0, index |-> ScenarioFail]>>)
    /\ [][(pc = "awaitProcessor" /\ chunk[j + 1] \in failing)
             => /\ pc' \in {"yield", "itemLoop"}
                /\ pc' = "itemLoop" => j' = j + 1
                /\ thrown' = NoError
                /\ chunkResults' = chunkResults]_vars

C5_Witness ==
    /\ pc = "done"
    /\ Len(data) = ScenarioLen
    /\ failing = {ScenarioFail}
    /\ Len(results) = ScenarioLen - 1
    /\ Len(transformLog) = ScenarioLen

\* The indices of all registered callbacks, in registration order
allCallbacks == [k \in 1..Len(cleanupCallbacks) |-> k - 1]

\* C6: after a sample above 70% before an item, that item's transform starts only
\* when forceCleanup has been called exactly once for it, every callback has settled
\* and the 100 ms pause has elapsed; and the item is then transformed, so the run is
\* not ended by that cleanup.
C6_CleanupThenTransform ==
    /\ (pc \in {"callProcessor", "awaitProcessor"} /\ overThreshold(memInfo, ItemThreshold))
          => /\ cleanupCount = 1
             /\ paused
             /\ cbTrace = allCallbacks
             /\ cbInFlight = {}
    /\ (ret = "item" /\ overThreshold(memInfo, ItemThreshold)) => pc # "rejected"

\* C7: forceCleanup invokes the callbacks in registration order, one at a time, each
\* after the previous one has settled; when its loop is over every callback has been
\* invoked exactly once and every failing one has been warned about, the ones after
\* a failing callback included.
C7_EveryCallbackOnce ==
    /\ Cardinality(cbInFlight) <= 1
    /\ pc = "forceCleanup" => /\ cbInFlight = {}
                              /\ cbTrace = SubSeq(allCallbacks, 1, cb)
    /\ pc = "awaitCallback" => /\ cbInFlight = {cb}
                               /\ cbTrace = SubSeq(allCallbacks, 1, cb + 1)
    /\ pc = "gcHint" =>
          /\ cbTrace = allCallbacks
          /\ cbInFlight = {}
          /\ cbWarned = SelectSeq(allCallbacks, LAMBDA c : cleanupCallbacks[c + 1] # "ok")

C7_Witness ==
    /\ pc = "gcHint"
    /\ Len(cleanupCallbacks) >= 2
    /\ cleanupCallbacks[1] # "ok"
    /\ cbTrace = allCallbacks
    /\ cbWarned # <<>>

\* C8: the garbage-collection hint never makes forceCleanup fail: whatever the host
\* exposes, no call ends with the ReferenceError of reading `global`.
C8_GcHintNeverFails ==
    ~(pc = "rejected" /\ thrown.name = "ReferenceError")

\* A configuration the validation must reject
invalidConfiguration ==
    \/ dataSize > DataSizeMax
    \/ dataSize < DataSizeMin
    \/ chunkSize > dataSize

\* Dataset sizes around the two limits, those no slider position gives included
probedSizes == {DataSizeMin - 1, DataSizeMin, DataSizeMax, DataSizeMax + 1}

\* C9: handleProcessData started with an invalid configuration sets a validation
\* error and does nothing else: no dataset, no processStream call, no transform call,
\* isProcessing not set, no log line added; the validation rejects exactly the sizes
\* above 100,000 or below 500 and the chunk sizes above the dataset size.
C9_InvalidConfigurationRejected ==
    /\ [](\A size \in probedSizes \cup DataSizes, c \in ChunkSizes :
            (validate(size, c).type = ERROR_TYPES.VALIDATION)
               <=> (size > DataSizeMax \/ size < DataSizeMin \/ c > size))
    /\ [][(handleProcessData /\ invalidConfiguration)
           => /\ error'.type = ERROR_TYPES.VALIDATION
              /\ UNCHANGED <<data, pc, transformLog, chunkLog, onChunkCalls, isProcessing,
                             isAnimating, processingLog, resultsState, progress, timer>>]_vars

C9_Witness ==
    /\ invalidConfiguration
    /\ error.type = ERROR_TYPES.VALIDATION
    /\ ~isProcessing
    /\ pc = "idle"
    /\ data = <<>>
    /\ transformLog = <<>>
    /\ processingLog = <<>>

\* C10: a run started while no encryption key is available ends before any chunk
\* runs: processStream is not called, no transform call and no onChunk invocation
\* is made, and one error is surfaced; a stream that runs always has a key.
C10_NoKeyNoChunk ==
    /\ [](pc # "idle" => encryptionKey # NULL)
    /\ [][(handleProcessData /\ ~invalidConfiguration /\ encryptionKey = NULL)
             => /\ pc' = "idle"
                /\ UNCHANGED <<data, transformLog, chunkLog, onChunkCalls>>
                /\ error' = getErrorDetails(KeyNotInitialized)
                /\ error'.type = ERROR_TYPES.ENCRYPTION
                /\ Len(SelectSeq(processingLog', LAMBDA m : m[1] = "Error"))
                      = Len(SelectSeq(processingLog, LAMBDA m : m[1] = "Error")) + 1
                /\ success' = ""]_vars

C10_Witness ==
    /\ encryptionKey = NULL
    /\ isProcessing
    /\ timer
    /\ pc = "idle"
    /\ error.type = ERROR_TYPES.ENCRYPTION
    /\ transformLog = <<>>
    /\ onChunkCalls = <<>>

\* The fraction f is the percentage p
isPercent(f, p) == f.den > 0 /\ f.num = p * f.den

\* The events processStream itself emits (those of processWithMemoryCheck name no chunk)
isChunkEvent(event) == "currentChunk" \in DOMAIN event

\* C11: when processStream returns from a run on a non-empty dataset with onProgress
\* supplied, the last event onProgress received is the one processStream emitted for
\* the last chunk, with processed = total = the dataset size, percentage = 100 and
\* currentChunk = totalChunks; so it is for 1000 records in chunks of 500.
C11_FinalProgress ==
    (pc = "done" /\ onProgress # NULL /\ data # <<>>) =>
        /\ progressEvents # <<>>
        /\ LET last == progressEvents[Len(progressEvents)]
           IN  /\ isChunkEvent(last)
               /\ last.processed = Len(data)
               /\ last.total = Len(data)
               /\ isPercent(last.percentage, 100)
               /\ last.currentChunk = last.totalChunks
               /\ last.totalChunks = totalChunks

C11_Witness ==
    /\ pc = "done"
    /\ onProgress # NULL
    /\ Len(data) = 1000
    /\ chunkSize = 500
    /\ progressEvents[Len(progressEvents)].processed = 1000
    /\ progressEvents[Len(progressEvents)].currentChunk = 2
    /\ isPercent(progressEvents[Len(progressEvents)].percentage, 100)

\* C12: once processStream is invoked, and everything it awaits settles, it
\* eventually returns its results; until then it visits the chunk indices 0, 1, ...
\* once each in increasing order.
C12_RunCompletes ==
    /\ [](\A k \in 1..Len(chunkLog) : chunkLog[k].chunkIndex = k - 1)
    /\ (pc # "idle") ~> (pc = "done")

\* The same progress in the hosts where the identifier `global` can be read
RunCompletesWhereGlobalExists ==
    (pc # "idle" /\ hostGlobal # "undefined") ~> (pc = "done")

\* The chunk-level events onProgress has received
chunkEvents == SelectSeq(progressEvents, isChunkEvent)

\* The run is inside processWithMemoryCheck for the current chunk
inItemLoop ==
    \/ pc \in {"itemLoop", "pause", "callProcessor", "awaitProcessor", "yield"}
    \/ (pc \in {"forceCleanup", "awaitCallback", "gcHint"} /\ ret = "item")

\* The run is in the cleanup that follows the chunk's memory sample
inChunkCleanup == pc \in {"forceCleanup", "awaitCallback", "gcHint"} /\ ret = "chunk"

\* C13: for chunk k the steps come in this order: the transforms of all its items,
\* the onChunk invocation for k, the release of the chunk's storage, the memory sample
\* (and the cleanup it asks for), the chunk-level onProgress event for k; a transform
\* of chunk k + 1 starts only when all of these are over for chunk k.
C13_ChunkStepsInOrder ==
    /\ inItemLoop =>
          /\ Len(chunkLog) = chunkIndex + 1
          /\ chunk = chunkLog[chunkIndex + 1].items
          /\ i = chunkIndex * chunkSize
          /\ Len(transformLog) <= i + Len(chunk)
          /\ Len(transformLog) >= i
          /\ onChunk # NULL => Len(onChunkCalls) = chunkIndex
          /\ onProgress # NULL => Len(chunkEvents) = chunkIndex
          /\ \A k \in 1..Len(chunkEvents) : chunkEvents[k].currentChunk = k
    /\ pc = "onChunk" =>
          /\ Len(transformLog) = i + Len(chunk)
          /\ pending = {}
          /\ chunk # <<>>
          /\ onChunk # NULL => Len(onChunkCalls) = chunkIndex
          /\ onProgress # NULL => Len(chunkEvents) = chunkIndex
    /\ pc = "afterOnChunk" =>
          /\ chunk # <<>>
          /\ onChunk # NULL => /\ Len(onChunkCalls) = chunkIndex + 1
                               /\ onChunkCalls[chunkIndex + 1].chunkIndex = chunkIndex
          /\ onProgress # NULL => Len(chunkEvents) = chunkIndex
    /\ (inChunkCleanup \/ pc = "chunkProgress") =>
          /\ chunk = <<>>
          /\ memInfo \in checkMemoryUsage
          /\ inChunkCleanup => memInfo.available /\ memInfo.percentage > 75
          /\ (pc = "chunkProgress" /\ memInfo.available /\ memInfo.percentage > 75)
                => cbTrace = allCallbacks /\ cbInFlight = {}
          /\ onChunk # NULL => Len(onChunkCalls) = chunkIndex + 1
          /\ onProgress # NULL => Len(chunkEvents) = chunkIndex
    /\ (pc = "chunkLoop" /\ i > 0) =>
          /\ onProgress # NULL => /\ Len(chunkEvents) = chunkIndex + 1
                                  /\ chunkEvents[chunkIndex + 1].currentChunk = chunkIndex + 1
          /\ onChunk # NULL => Len(onChunkCalls) = chunkIndex + 1
          /\ Len(transformLog) = Min(i, Len(data))

C13_Witness ==
    /\ pc = "awaitProcessor"
    /\ chunkIndex = 1
    /\ j = 0
    /\ Len(onChunkCalls) = 1
    /\ Len(chunkEvents) = 1
    /\ Len(transformLog) = chunkSize + 1
    /\ cleanupCallbacks # <<>>
    /\ perfMemory

\* C14: at most one transform call is in flight at any moment, a transform starts
\* only when every earlier one has settled, and none is in flight while the loop is
\* suspended in a yield, a pause or a cleanup.
C14_OneTransformAtATime ==
    /\ [](/\ Cardinality(pending) <= 1
          /\ pc = "awaitProcessor" <=> pending # {}
          /\ pending # {} => /\ transformLog # <<>>
                             /\ pending = {transformLog[Len(transformLog)].item}
                             /\ transformLog[Len(transformLog)].item = chunk[j + 1])
    /\ [][callProcessor => /\ pending = {}
                           /\ Len(transformLog') = Len(transformLog) + 1
                           /\ pending' = {chunk[j + 1]}]_vars

C14_Witness ==
    /\ pc = "awaitProcessor"
    /\ j = 1
    /\ Len(transformLog) = 2
    /\ pending = {chunk[2]}
    /\ paused

\* C15: with onChunk supplied it is invoked once per chunk, in chunk order: the k-th
\* invocation carries chunkIndex k - 1, the run's totalChunks, and the results of
\* exactly the records of chunk k - 1 on which the transform succeeded, in order; a
\* call that returns has made totalChunks invocations, 2 for 1000 records in chunks
\* of 500.
C15_OnChunkOncePerChunk ==
    onChunk # NULL =>
        /\ Len(onChunkCalls) <= Len(chunkLog)
        /\ Len(onChunkCalls) >= Len(chunkLog) - 1
        /\ \A k \in 1..Len(onChunkCalls) :
              /\ onChunkCalls[k].chunkIndex = k - 1
              /\ onChunkCalls[k].totalChunks = totalChunks
              /\ sourcesOf(onChunkCalls[k].chunkResults) = succeeding(chunkLog[k].items)
        /\ pc = "done" => Len(onChunkCalls) = totalChunks
        /\ (pc = "done" /\ Len(data) = 1000 /\ chunkSize = 500) => Len(onChunkCalls) = 2

C15_Witness ==
    /\ pc = "done"
    /\ Len(data) = 1000
    /\ chunkSize = 500
    /\ failing # {}
    /\ Len(onChunkCalls) = 2
    /\ onChunkCalls[2].chunkIndex = 1
    /\ Len(onChunkCalls[1].chunkResults) = 498
    /\ Len(onChunkCalls[2].chunkResults) = 499

\* C16: before an item forceCleanup is called if and only if the snapshot is
\* available and strictly above 70%, after a chunk if and only if it is available
\* and strictly above 75%; at exactly 70 (item) or 75 (chunk), and where no snapshot
\* is available, there is no cleanup and no pause and the run goes straight on.
C16_CleanupOnlyAboveThreshold ==
    /\ [](/\ (pc = "pause" \/ (pc \in {"forceCleanup", "awaitCallback", "gcHint"}
                                   /\ ret = "item"))
               => (memInfo.available /\ memInfo.percentage > 70 /\ cleanupCount = 1)
          /\ inChunkCleanup => (memInfo.available /\ memInfo.percentage > 75)
          /\ pc \in {"callProcessor", "awaitProcessor"} =>
                IF memInfo.available /\ memInfo.percentage > 70
                THEN cleanupCount = 1 /\ paused
                ELSE cleanupCount = 0 /\ ~paused /\ cbTrace = <<>> /\ ~gcCalled)
    /\ [][(itemLoop /\ j < Len(chunk))
             => /\ memInfo' \in checkMemoryUsage
                /\ pc' = "forceCleanup" <=> (memInfo'.available /\ memInfo'.percentage > 70)
                /\ pc' # "forceCleanup" => /\ pc' = "callProcessor"
                                           /\ UNCHANGED <<cleanupCount, paused, cbTrace>>]_vars
    /\ [][afterOnChunk
             => /\ memInfo' \in checkMemoryUsage
                /\ pc' = "forceCleanup" <=> (memInfo'.available /\ memInfo'.percentage > 75)
                /\ pc' # "forceCleanup" => /\ pc' = "chunkProgress"
                                           /\ UNCHANGED <<cbTrace, gcCalled, paused>>]_vars

C16_Witness ==
    /\ pc = "callProcessor"
    /\ memInfo.available
    /\ memInfo.percentage = 70
    /\ cleanupCount = 0
    /\ ~paused
    /\ cleanupCallbacks # <<>>
    /\ cbTrace = <<>>

\* The events onProgress has received from processWithMemoryCheck
itemEvents == SelectSeq(progressEvents, LAMBDA event : ~isChunkEvent(event))

\* The processor calls that have settled, in call order
settledCalls == SelectSeq(transformLog, LAMBDA c : c.item \notin pending)

\* The number of items of the chunk that holds `record`
chunkLenOf(record) == Len(chunkLog[(positionOf(record) \div chunkSize) + 1].items)

\* The event C17 expects for a settled call at an index that is a multiple of 100
hundredthEvent(c) ==
    [processed |-> c.index + 1,
     total |-> chunkLenOf(c.item),
     percentage |-> Percentage(c.index + 1, chunkLenOf(c.item))]

\* C17: with onProgress supplied, processWithMemoryCheck emits one event for every
\* item whose index is a multiple of 100, with processed = index + 1, total = the
\* number of items and percentage = (index + 1) / total * 100, and none for any
\* other index, whether the item's transform succeeded or failed.
C17_ProgressEveryHundredth ==
    onProgress # NULL =>
        LET at == SelectSeq(settledCalls, LAMBDA c : c.index % 100 = 0)
        IN  itemEvents = [k \in 1..Len(at) |-> hundredthEvent(at[k])]

\* What the loop does: the same events, for the items whose transform succeeded only
ProgressForSucceededHundredth ==
    onProgress # NULL =>
        LET at == SelectSeq(settledCalls,
                            LAMBDA c : c.index % 100 = 0 /\ c.item \notin failing)
        IN  itemEvents = [k \in 1..Len(at) |-> hundredthEvent(at[k])]

\* C18: a memory-monitor tick that runs while the loop is suspended only samples the
\* heap and sets the displayed memory info and the peak value; it leaves the results
\* so far, the chunk and item position, the cleanup registry and everything else of
\* the run as they were, and a run during which ticks ran still returns a result for
\* every record, in dataset order.
C18_MonitorLeavesPipelineAlone ==
    /\ [][memoryMonitorTick
             => /\ UNCHANGED <<results, chunkResults, chunk, chunkIndex, totalChunks, i, j, pc,
                               data, failing, chunkSize, cleanupCallbacks, transformLog,
                               chunkLog, onChunkCalls, errorLog, thrown, resultsState,
                               progress, processingLog, isProcessing>>
                /\ memoryInfo' \in checkMemoryUsage \cup {memoryInfo}
                /\ peakMemory' >= peakMemory]_vars
    /\ [](pc = "done" => /\ sourcesOf(results) = data
                         /\ transformed = data
                         /\ Len(onChunkCalls) = totalChunks)

C18_Witness ==
    /\ pc = "done"
    /\ isProcessing
    /\ memoryInfo.available
    /\ peakMemory = 85
    /\ Len(results) = dataSize
    /\ sourcesOf(results) = data

\* C19: a processStream run never changes the dataset it was given: same length,
\* same records, same order, at every point and after the run; and emptying the chunk
\* changes neither the dataset, nor the chunkResults onChunk received, nor the
\* results accumulated (which gain the chunk's results in the same step).
C19_InputUntouched ==
    /\ [](pc # "idle" => data = generateLargeDataset(Len(data)))
    /\ [][pc # "idle" => data' = data]_vars
    /\ [][afterOnChunk
             => /\ chunk # <<>>
                /\ chunk' = <<>>
                /\ data' = data
                /\ onChunkCalls' = onChunkCalls
                /\ chunkResults' = chunkResults
                /\ results' = results \o chunkResults
                /\ chunkLog' = chunkLog]_vars

C19_Witness ==
    /\ pc = "chunkProgress"
    /\ chunk = <<>>
    /\ chunkIndex = 1
    /\ Len(data) = MaxData
    /\ Len(onChunkCalls) = 2
    /\ onChunkCalls[2].chunkResults # <<>>
    /\ Len(results) >= 2

\* The substrings getErrorDetails looks for, as String.includes finds them
substrings == {"crypto", "subtle", "encrypt", "key", "memory", "Memory"}

\* The errors a catch can receive, told apart by the substrings their message holds
caughtErrors ==
    {[name |-> "Error", message |-> "message", mentions |-> m] : m \in SUBSET substrings}

\* The kinds of a surfaced error
errorKinds ==
    {ERROR_TYPES.VALIDATION, ERROR_TYPES.ENCRYPTION, ERROR_TYPES.MEMORY,
     ERROR_TYPES.BROWSER_SUPPORT}

\* The error state is null or one object {type, message, suggestion} of a known kind
oneErrorObject ==
    error # NoMessage => /\ DOMAIN error = {"type", "message", "suggestion"}
                         /\ error.type \in errorKinds

\* C20: every error surfaced is one object {kind, message, suggestion} of one of
\* the four kinds, and getErrorDetails gives every caught error exactly one kind, by
\* precedence: 'crypto' or 'subtle' gives unsupported-environment, otherwise
\* 'encrypt' or 'key' gives encryption, otherwise 'memory' gives memory, otherwise
\* encryption.
C20_ErrorKindByPrecedence ==
    /\ oneErrorObject
    /\ \A err \in caughtErrors :
          getErrorDetails(err).type =
              IF "crypto" \in err.mentions \/ "subtle" \in err.mentions
              THEN "browser_support"
              ELSE IF "encrypt" \in err.mentions \/ "key" \in err.mentions
              THEN "encryption"
              ELSE IF "memory" \in err.mentions
              THEN "memory"
              ELSE "encryption"

\* C20 as the code has it: the memory kind is given to a message that holds
\* 'memory' or 'Memory' (the tests are case-sensitive substring tests), the rest of
\* the precedence being as stated; and every error surfaced is one object of one of
\* the four kinds.
C20_ErrorKindMemoryEitherCase ==
    /\ oneErrorObject
    /\ \A err \in caughtErrors :
          /\ DOMAIN getErrorDetails(err) = {"type", "message", "suggestion"}
          /\ getErrorDetails(err).type =
                IF "crypto" \in err.mentions \/ "subtle" \in err.mentions
                THEN "browser_support"
                ELSE IF "encrypt" \in err.mentions \/ "key" \in err.mentions
                THEN "encryption"
                ELSE IF "memory" \in err.mentions \/ "Memory" \in err.mentions
                THEN "memory"
                ELSE "encryption"
    /\ (pc = "idle" /\ timer /\ encryptionKey = NULL)
          => error = getErrorDetails(KeyNotInitialized)

C20_Witness ==
    /\ isProcessing
    /\ timer
    /\ encryptionKey # NULL
    /\ error = getErrorDetails(GlobalReferenceError)
    /\ error.type = "encryption"
    /\ error.message = "An unexpected error occurred during processing"

\* ---------------------------------------------------------------------- C21
\* C21: every call to encrypt draws a 12-byte nonce from the random source exactly
\* once, inside that call; the cipher object never changes, so no nonce is stored on
\* it, and no call takes its nonce from anywhere but its own draw; a returned output
\* is the nonce followed by the ciphertext with its tag, and its iv field equals the
\* first 12 bytes of its data.
C21_NoncePerCall ==
    /\ [](/\ Len(randomLog) = Len(encCalls)
          /\ \A c \in 1..Len(encCalls) :
                /\ randomLog[c].call = c
                /\ randomLog[c].bytes = encCalls[c].iv
                /\ Len(encCalls[c].iv) = 12
                /\ encCalls[c].out # NoOutput =>
                      /\ encCalls[c].out.iv = encCalls[c].iv
                      /\ SubSeq(encCalls[c].out.data, 1, 12) = encCalls[c].out.iv
                      /\ Len(encCalls[c].out.data) = 12 + Len(encCalls[c].plain) + TagLength
                      /\ SubSeq(encCalls[c].out.data, 13, Len(encCalls[c].out.data))
                            = aesGcm("key", encCalls[c].iv, encCalls[c].plain))
    /\ [][cipher' = cipher]_vars
    /\ [][Len(encCalls') > Len(encCalls) =>
            /\ Len(encCalls') = Len(encCalls) + 1
            /\ randomLog' = Append(randomLog, [call |-> Len(encCalls'),
                                               bytes |-> encCalls'[Len(encCalls')].iv])]_vars

\* Two calls were made with different nonces, and both returned
C21_Witness ==
    /\ Len(encCalls) = 2
    /\ \A c \in 1..2 : /\ encCalls[c].out # NoOutput
                        /\ SubSeq(encCalls[c].out.data, 1, 12) = encCalls[c].out.iv
    /\ encCalls[1].iv # encCalls[2].iv

\* ---------------------------------------------------------------------- C22
\* percentage a is at most percentage b
percentLeq(a, b) == a.num * b.den <= b.num * a.den

\* The events of `events` never go down in percentage and all carry the dataset size
monotonicOver(events) ==
    \A k \in 1..Len(events) :
        /\ events[k].total = Len(data)
        /\ k > 1 => percentLeq(events[k - 1].percentage, events[k].percentage)

\* C22: over one processStream run with onProgress supplied, the events onProgress
\* received never decrease in percentage from one to the next, and every event's total
\* is the dataset size.
C22_ProgressMonotonic == monotonicOver(progressEvents)

\* The events processStream itself emits are monotonic and carry the dataset size
ChunkProgressMonotonic == monotonicOver(chunkEvents)

\* ---------------------------------------------------------------------- C23
\* C23: in every state of the demo the displayed progress has processed <= total and
\* percentage <= 100, also after the onChunk update for the last chunk when the chunk
\* size does not divide the dataset size (dataSize 2500, chunkSize 2000).
C23_ProgressWithinTotal ==
    /\ progress.processed <= progress.total
    /\ percentLeq(progress.percentage, Percent(100))

\* The displayed percentage never exceeds 100
DisplayedPercentageAtMost100 == percentLeq(progress.percentage, Percent(100))

\* ---------------------------------------------------------------------- C24
\* The last n entries of a sequence, in order
lastOf(seq, n) == SubSeq(seq, Max(1, Len(seq) - n + 1), Len(seq))

\* C24: the processing log never holds more than 20 entries; it holds the most recent
\* of the messages added since it was last emptied, at most 20, in the order they were
\* added; and handleClearData leaves exactly one entry.
C24_LogBounded ==
    /\ [](/\ Len(processingLog) <= 20
          /\ processingLog = lastOf(logged, 20))
    /\ [][handleClearData => Len(processingLog') = 1]_vars

\* More than 20 messages were added after a clearing, and the log holds 20
C24_Witness ==
    /\ Len(logged) > 20
    /\ logged[1] = <<"Data cleared and memory freed">>
    /\ Len(processingLog) = 20
    /\ processingLog[20] = logged[Len(logged)]

\* ---------------------------------------------------------------------- C25
\* handleProcessData is invoked with a configuration that fails validation
rejectedByValidation == validate(dataSize, chunkSize) # NoMessage

\* C25: the error message and the success message are never both set; an invocation
\* of handleProcessData clears both before anything else, so that what it leaves is no
\* success message and no error but its own; the success message is set only when
\* processStream has completed without an exception escaping; an error is set only on
\* a validation failure or on an exception that escaped (the missing key's included).
C25_ErrorXorSuccess ==
    /\ [](~(error # NoMessage /\ success # ""))
    /\ [][handleProcessData =>
            /\ success' = ""
            /\ error' # NoMessage => (rejectedByValidation \/ keyMissing(encryptionKey))
            /\ (~rejectedByValidation /\ ~keyMissing(encryptionKey)) => error' = NoMessage]_vars
    /\ [][(success' # success /\ success' # "") => (pc = "done" /\ thrown = NoError)]_vars
    /\ [][(error' # error /\ error' # NoMessage) =>
            \/ handleProcessData /\ (rejectedByValidation \/ keyMissing(encryptionKey))
            \/ pc = "rejected" /\ thrown # NoError]_vars

\* A run completed with the success message, and a later invocation with a chunk size
\* above the dataset size replaced it by a validation error
C25_Witness ==
    /\ resultsState # <<>>
    /\ runs = 1
    /\ success = ""
    /\ error.type = ERROR_TYPES.VALIDATION
    /\ ~isProcessing

\* ---------------------------------------------------------------------- C26
\* A processStream invocation of the component is under way
runActive == pc # "idle"

\* C26: at most one processing run is active at any time: a run is active only while
\* isProcessing is true; while it is true neither Start nor Clear nor a slider acts,
\* so that no run starts and the dataset size, the chunk size and the StreamProcessor
\* in use stay as they are until isProcessing is false again.
C26_OneRunAtATime ==
    /\ [](runActive => isProcessing)
    /\ [][isProcessing =>
            /\ runs' = runs
            /\ chunkSize' = chunkSize
            /\ dataSize' = dataSize
            /\ data' # data => data' = <<>>
            /\ ~handleProcessDataWithin(MaxStarts)
            /\ ~handleClearData]_vars
    /\ [][runs' # runs => (~runActive /\ ~isProcessing /\ ~timer /\ runs' = runs + 1)]_vars

\* A second run is under way, with chunks already done, after the first one finished
C26_Witness ==
    /\ runs = 2
    /\ runActive
    /\ isProcessing
    /\ chunkLog # <<>>

\* ---------------------------------------------------------------------- C27
\* C27: every run that passed validation and set isProcessing eventually has
\* isProcessing and isAnimating back at false, whether processStream completed, the
\* key was missing or an exception escaped; isProcessing is set only by such a run.
C27_ControlsReenabled ==
    /\ [][(~isProcessing /\ isProcessing') =>
            (handleProcessData /\ ~rejectedByValidation /\ isAnimating')]_vars
    /\ isProcessing ~> (~isProcessing /\ ~isAnimating)

\* A run ended by an exception that escaped processStream, and the controls are
\* enabled again
C27_Witness ==
    /\ runs = 1
    /\ ~isProcessing
    /\ ~isAnimating
    /\ ~timer
    /\ hostGlobal = "undefined"
    /\ error = getErrorDetails(GlobalReferenceError)
    /\ success = ""

=============================================================================
